---------------------------- MODULE Spec2Model ----------------------------
(***************************************************************************)
(* Model of the AT28C256 EEPROM programmer host (eeprom.py): the length-   *)
(* prefixed frame codec (_send / _receive), the single-byte read / write   *)
(* commands and the chunked, acknowledged bulk transfers fdump / fload,    *)
(* running against the serial port (two byte queues) and the Arduino       *)
(* bridge at its other end; further the callers of the transfers (load,    *)
(* the load sub-command, test), the command loop's handling of a failed    *)
(* command, and the user's interrupt with the Reset that __main__ sends    *)
(* on it.                                                                  *)
(*                                                                         *)
(* The serial port is pyserial's Serial(timeout=30): read(n) returns the   *)
(* bytes that arrived before the timeout, possibly fewer than n, possibly  *)
(* none, and raises nothing; readinto(b) is read(len(b)) stored at b[0:k]. *)
(***************************************************************************)
EXTENDS Naturals, Sequences, FiniteSets, TLC

VARIABLES
    pc,        \* host position: the receive the host is blocked in, or idle/done/failed
    op,        \* the command being run
    rphase,    \* _receive: "len" before port.read(1), "body" inside the readinto loop
    l,         \* _receive: the declared length
    tot,       \* _receive: the running total of the readinto loop
    buf,       \* _receive: the buffer
    size,      \* fdump / fload: the requested size
    cnt,       \* fdump / fload: the running byte counter
    sink,      \* fdump: the bytes written to f (recorded when keep)
    sinkLen,   \* history: the number of bytes written to f
    sinkMatch, \* history: each byte written to f was the device's byte at that offset
    srcLen,    \* fload: the number of bytes the source f holds
    result,    \* what the command printed / returned
    tx,        \* serial line, host to device: bytes written and not yet taken by the device
    rx,        \* serial line, device to host: bytes written and not yet read by the host
    dpc,       \* device position
    dpos,      \* device: next address of a dump / bytes stored so far of a load
    dsize,     \* device: the size announced by the Load command
    devMem,    \* device: the cells of the EEPROM stored by loads and writes
    sent,      \* history: the payloads passed to _send during the current command
    got,       \* history: the number of frames _receive returned during the current command
    last,      \* history: the frame the latest _receive returned
    acks,      \* history: zero-length frames really read off the line in the current command
    nread,     \* history: bytes the host took off the line in the current _receive
    timedOut,  \* history: a port read of the current command came back short
    slow,      \* reads that may still time out empty-handed though bytes are on their way
    splits,    \* reads that may still return a part, not all, of the bytes on their way
    keep,      \* whether the content of the sink is recorded
    left,      \* commands the session may still start
    srcMatch,  \* history: each byte written to f was the source's byte at that offset
    scan,      \* history: where the bytes written to the port so far stand as a run of frames
    intr       \* the user's interrupt: "off" (none will come), "armed", "struck"

vars == <<pc, op, rphase, l, tot, buf, size, cnt, sink, sinkLen, sinkMatch, srcLen, result, tx, rx,
          dpc, dpos, dsize, devMem, sent, got, last, acks, nread, timedOut, slow, splits, keep, left,
          srcMatch, scan, intr>>

hostVars == <<pc, op, rphase, l, tot, buf, size, cnt, sink, sinkLen, sinkMatch, srcLen, result,
              sent, got, last, acks, nread, timedOut, slow, splits, keep, left,
              srcMatch, scan, intr>>
devVars  == <<dpc, dpos, dsize, devMem>>

---------------------------------------------------------------------------
(* Program constants *)

MAXPAYLOAD == 62
ROMSIZE == 32768

(* Bounds of the model *)

MaxCmds == 2
MaxTimeouts == 2
MaxFrameLen == 64
MaxSeed == 1
MaxSplits == 1
\* Frames one command may receive: above the 1059 of a self-test of the whole
\* device; it ends the runs in which a dump polls a device that has no more to send.
MaxReceives == 1064

---------------------------------------------------------------------------
(* Bytes and sequences *)

Min(a, b) == IF a < b THEN a ELSE b

CeilDiv(a, b) == (a + b - 1) \div b

Take(s, n) == SubSeq(s, 1, Min(n, Len(s)))

Drop(s, n) == SubSeq(s, Min(n, Len(s)) + 1, Len(s))

Zeros(n) == [i \in 1..n |-> 0]

\* ord('r'), ord('w'), ord('d'), ord('l')
ChR == 114
ChW == 119
ChD == 100
ChL == 108

\* The content of the source f of a load, byte i (from 0).
SrcByte(i) == (7 * i + 3) % 256

\* The content of the EEPROM before anything is stored, at address a.
RomByte(a) == (5 * a + 1) % 256

SrcRead(pos, n, len) == [i \in 1..Min(n, len - pos) |-> SrcByte(pos + i - 1)]


---------------------------------------------------------------------------
(* atoi and struct.pack *)

StartsWith(s, p) == Len(s) >= Len(p) /\ SubSeq(s, 1, Len(p)) = p

Digits == <<"0", "1", "2", "3", "4", "5", "6", "7", "8", "9",
            "a", "b", "c", "d", "e", "f">>

Lower(c) == CASE c = "A" -> "a" [] c = "B" -> "b" [] c = "C" -> "c"
              [] c = "D" -> "d" [] c = "E" -> "e" [] c = "F" -> "f"
              [] OTHER -> c

\* The value of digit c in the given base, or base itself when c is no digit of it.
DigitVal(c, base) ==
    LET hit == {i \in 1..base : Digits[i] = Lower(c)}
    IN  IF hit = {} THEN base ELSE (CHOOSE i \in hit : TRUE) - 1

RECURSIVE ParseDigits(_, _, _)
ParseDigits(s, base, acc) ==
    IF s = <<>> THEN acc
    ELSE ParseDigits(Tail(s), base, acc * base + DigitVal(Head(s), base))

\* int(val, base): [ok |-> FALSE] stands for ValueError.
AtoiBase(val) ==
    IF StartsWith(val, <<"0", "x">>) THEN 16
    ELSE IF StartsWith(val, <<"0", "o">>) THEN 8
    ELSE 10

atoi(val) ==
    LET base == AtoiBase(val)
        digs == IF base = 10 THEN val ELSE Drop(val, 2)
    IN  IF digs = <<>> \/ \E i \in 1..Len(digs) : DigitVal(digs[i], base) = base
        THEN [ok |-> FALSE, val |-> 0]
        ELSE [ok |-> TRUE, val |-> ParseDigits(digs, base, 0)]

\* str(n): the decimal notation of n, as typed at the prompt.
RECURSIVE Str(_)
Str(n) ==
    IF n < 10 THEN <<Digits[n + 1]>>
    ELSE Str(n \div 10) \o <<Digits[(n % 10) + 1]>>

\* struct.pack's range of an 'H' and of a 'B' field; outside it pack raises struct.error.
FitsH(n) == n <= 65535
FitsB(n) == n <= 255

PackHLittle(n) == <<n % 256, n \div 256>>

PackH(n) == <<n \div 256, n % 256>>

PackRead(a) == <<ChR>> \o PackH(a)
PackWrite(a, v) == <<ChW>> \o PackH(a) \o <<v>>
PackDump == <<ChD>>
PackLoad(n) == <<ChL>> \o PackH(n)
PackReset == <<ChR>>

---------------------------------------------------------------------------
(* Frame codec: _send *)

SendAllowedOffByOne(data) == Len(data) <= MAXPAYLOAD + 1

\* assert len(data) <= self.MAXPAYLOAD
SendAllowed(data) == Len(data) <= MAXPAYLOAD

\* The bytes the two port.write calls of _send put on the line.
SendBytes(data) == <<Len(data)>> \o data

AckOkAnything(frame) == TRUE

\* assert len(self._receive()) == 0
AckOk(frame) == Len(frame) = 0

\* What _send(data) writes: nothing when the assertion fails.
_send(data) == IF SendAllowed(data) THEN SendBytes(data) ELSE <<>>

\* What a run of _send calls writes; a failing one is the last of its run.
RECURSIVE Wire(_)
Wire(frames) ==
    IF frames = <<>> THEN <<>> ELSE _send(Head(frames)) \o Wire(Tail(frames))

\* The port.write calls a run of _send calls makes, in order: for each frame its
\* length byte, then its data.
RECURSIVE Writes(_)
Writes(frames) ==
    IF frames = <<>> THEN <<>>
    ELSE (IF SendAllowed(Head(frames))
          THEN << <<Len(Head(frames))>>, Head(frames) >>
          ELSE <<>>) \o Writes(Tail(frames))

RECURSIVE Flat(_)
Flat(ws) == IF ws = <<>> THEN <<>> ELSE Head(ws) \o Flat(Tail(ws))

\* The bytes on the line after the first w of these port.write calls.
Written(frames, w) == Flat(SubSeq(Writes(frames), 1, w))

\* The bytes written to the port read as frames: owed is the number of data bytes
\* the frame begun last still lacks, ok whether every length byte so far was at
\* most MAXPAYLOAD.
RECURSIVE FrameScan(_, _)
FrameScan(st, bytes) ==
    IF bytes = <<>> THEN st
    ELSE IF st.owed = 0
    THEN FrameScan([owed |-> bytes[1], ok |-> st.ok /\ bytes[1] <= MAXPAYLOAD], Tail(bytes))
    ELSE LET k == Min(st.owed, Len(bytes))
         IN  FrameScan([owed |-> st.owed - k, ok |-> st.ok], Drop(bytes, k))

---------------------------------------------------------------------------
(* Host: what runs between two port reads *)

Receiving == {"read_resp", "write_ack", "dump_frame", "dump_drain",
              "load_cmd_ack", "load_chunk_ack", "frame_recv"}

\* The byte the EEPROM holds at address a. devMem.lo holds the cells a load has
\* stored, from address 0 up; devMem.at holds the cells written one by one since;
\* every other cell is as it was.
MemByte(a) ==
    IF a \in DOMAIN devMem.at THEN devMem.at[a]
    ELSE IF a < Len(devMem.lo) THEN devMem.lo[a + 1]
    ELSE RomByte(a)

\* The number of port.write calls of this run of _send calls that are made: all of
\* them, or, when the user's interrupt is to come, any number short of that.
CutPoints(frames) ==
    IF intr = "armed" THEN 0..Len(Writes(frames)) ELSE {Len(Writes(frames))}

\* except (KeyboardInterrupt, BrokenPipeError): eeprom.reset()
OnInterrupt == SendBytes(PackReset)

\* The host passes `frames` to _send, in order, and goes on to position p, unless
\* the interrupt strikes after w of the port.write calls: then the exception
\* leaves the command, the handler of __main__ sends Reset and the process ends.
Emit(p, prior, frames, nresult) ==
    \E w \in CutPoints(frames) :
        LET whole == w = Len(Writes(frames))
            out == IF whole THEN Wire(frames) ELSE Written(frames, w) \o OnInterrupt
        IN  /\ pc' = IF whole THEN p ELSE "released"
            /\ tx' = tx \o out
            /\ scan' = FrameScan(scan, out)
            /\ sent' = prior \o (IF whole THEN frames
                                 ELSE SubSeq(frames, 1, (w + 1) \div 2) \o <<PackReset>>)
            /\ intr' = IF whole THEN intr ELSE "struck"
            /\ result' = IF whole THEN nresult ELSE <<"KeyboardInterrupt">>

\* The host leaves this step at position p having passed `frames` to _send, in order,
\* and having written the bytes b to f. In a step the interrupt cuts short, the
\* write to f and the update of cnt have been reached or not.
HostGoes(p, frames, ncnt, b, nresult) ==
    /\ Emit(p, sent, frames, nresult)
    /\ \E upd \in IF pc' = "released" THEN BOOLEAN ELSE {TRUE} :
        LET nb == IF upd THEN b ELSE <<>>
        IN  /\ cnt' = IF upd THEN ncnt ELSE cnt
            /\ sink' = IF keep THEN sink \o nb ELSE sink
            /\ sinkLen' = sinkLen + Len(nb)
            /\ sinkMatch' = (sinkMatch /\ \A i \in 1..Len(nb) : nb[i] = MemByte(sinkLen + i - 1))
            /\ srcMatch' = (srcMatch /\ \A i \in 1..Len(nb) : nb[i] = SrcByte(sinkLen + i - 1))

\* test: if result.getvalue() != data.getvalue() ... else print('OK'), once the
\* bytes b have been written to result as well. data holds srcLen bytes.
Verdict(b) ==
    IF /\ srcMatch
       /\ \A i \in 1..Len(b) : b[i] = SrcByte(sinkLen + i - 1)
       /\ sinkLen + Len(b) = srcLen
    THEN <<"OK">> ELSE <<"differs">>

\* What the caller of fdump prints when it returns.
DumpReturns(b) == IF op = "test" THEN Verdict(b) ELSE <<"Complete">>

\* while cnt < size
DumpContinues(c, sz) == c < sz

\* if size < 0x8000
DumpResyncs(sz) == sz < ROMSIZE

\* fdump from the loop test on, `frames` already sent in this step: either block in
\* the next _receive(ack=True), or leave the loop, print and (partial dump) reset
\* and block in the draining _receive(ack=False).
DumpLoop(frames, sz, ncnt, b) ==
    IF DumpContinues(ncnt, sz)
    THEN HostGoes("dump_frame", frames, ncnt, b, result)
    ELSE IF DumpResyncs(sz)
    THEN HostGoes("dump_drain", frames \o <<PackReset>>, ncnt, b, <<"Complete">>)
    ELSE HostGoes("done", frames, ncnt, b, DumpReturns(b))

DumpTruncNone(frame, sz, c) == frame

DumpTruncShort(frame, sz, c) == Take(frame, sz - c - 1)

\* buf = self._receive(ack=True)[:size - cnt]
DumpTrunc(frame, sz, c) == Take(frame, sz - c)

ChunkLenOfSize(sz, c) == Min(MAXPAYLOAD, sz)

ChunkLenShort(sz, c) == Min(MAXPAYLOAD, sz - c) - 1

\* min(self.MAXPAYLOAD, size - cnt)
ChunkLen(sz, c) == Min(MAXPAYLOAD, sz - c)

\* fload from the top of its loop: read the next chunk, stop when the source gives
\* nothing, else count it and _send it (which asserts its length) and block in the
\* chunk's ack. When fload returns to test, test goes on to fdump(result, size).
LoadLoop ==
    LET data == SrcRead(cnt, ChunkLen(size, cnt), srcLen)
    IN  IF data = <<>>
        THEN IF op = "test"
             THEN DumpLoop(<<PackDump>>, size, 0, <<>>)
             ELSE HostGoes("done", <<>>, cnt, <<>>, <<"Complete">>)
        ELSE IF SendAllowed(data)
        THEN HostGoes("load_chunk_ack", <<data>>, cnt + Len(data), <<>>, result)
        ELSE HostGoes("failed", <<data>>, cnt + Len(data), <<>>, <<"AssertionError">>)

\* What the caller of _receive does with the frame it returned.
Continue(frame) ==
    CASE pc = "read_resp" ->
            HostGoes("done", <<>>, cnt, <<>>, <<"value", frame>>)
      [] pc = "write_ack" ->
            IF AckOk(frame)
            THEN HostGoes("done", <<>>, cnt, <<>>, <<"OK">>)
            ELSE HostGoes("failed", <<>>, cnt, <<>>, <<"AssertionError">>)
      [] pc = "dump_frame" ->
            LET b == DumpTrunc(frame, size, cnt)
            IN  DumpLoop(<< <<>> >>, size, cnt + Len(b), b)
      [] pc = "dump_drain" ->
            HostGoes("done", <<>>, cnt, <<>>, IF op = "test" THEN Verdict(<<>>) ELSE result)
      [] pc \in {"load_cmd_ack", "load_chunk_ack"} ->
            IF AckOk(frame)
            THEN LoadLoop
            ELSE HostGoes("failed", <<>>, cnt, <<>>, <<"AssertionError">>)
      [] pc = "frame_recv" ->
            HostGoes("done", <<>>, cnt, <<>>, <<"frame", frame>>)


---------------------------------------------------------------------------
(* Host: _receive, one port read at a time *)

\* The number of bytes the next port read asks for: read(1), then readinto(buf).
ReadAsk == IF rphase = "len" THEN 1 ELSE Len(buf)

\* readinto(buf): b[:n] = data
ReadInto(b, data) == data \o Drop(b, Len(data))

\* while tot < l
BodyContinues(t, len) == t < len

\* A port read that asked for n bytes may return k of them. k = n is a read that
\* was served. A shorter one is the 30 s timeout striking: nothing more can arrive
\* because the line holds no more than k bytes and the device has no frame left
\* to act on (Starved), or the bytes are late: none has arrived (counted against
\* `slow`) or only the first k of them (counted against `splits`).
Starved(k) == k = Len(rx) /\ tx = <<>>

Late(k, n) == k < n /\ ~Starved(k)

ReadPossible(k, n) ==
    \/ ~Late(k, n)
    \/ k = 0 /\ slow > 0
    \/ k > 0 /\ splits > 0

\* _receive returns `frame` to its caller.
Returns(frame) ==
    /\ rphase' = "len"
    /\ l' = 0
    /\ tot' = 0
    /\ buf' = <<>>
    /\ got' = got + 1
    /\ last' = frame
    /\ Continue(frame)

HostRecv ==
    /\ pc \in Receiving
    /\ got < MaxReceives
    /\ \E k \in 0..Min(ReadAsk, Len(rx)) :
        /\ ReadPossible(k, ReadAsk)
        /\ slow' = IF Late(k, ReadAsk) /\ k = 0 THEN slow - 1 ELSE slow
        /\ splits' = IF Late(k, ReadAsk) /\ k > 0 THEN splits - 1 ELSE splits
        /\ timedOut' = (timedOut \/ k < ReadAsk)
        /\ rx' = Drop(rx, k)
        /\ IF rphase = "len"
           THEN LET len == IF k = 1 THEN rx[1] ELSE 0   \* int.from_bytes(b'') = 0
                IN  /\ nread' = k
                    /\ acks' = IF k = 1 /\ len = 0 THEN acks + 1 ELSE acks
                    /\ IF BodyContinues(0, len)
                       THEN /\ rphase' = "body"
                            /\ l' = len
                            /\ tot' = 0
                            /\ buf' = Zeros(len)
                            /\ UNCHANGED <<pc, tx, sent, cnt, sink, sinkLen, sinkMatch, result, got, last,
                                           srcMatch, scan, intr>>
                       ELSE Returns(Zeros(len))
           ELSE LET nbuf == ReadInto(buf, Take(rx, k))
                    ntot == tot + k
                IN  /\ nread' = nread + k
                    /\ acks' = acks
                    /\ IF BodyContinues(ntot, l)
                       THEN /\ buf' = nbuf
                            /\ tot' = ntot
                            /\ UNCHANGED <<pc, rphase, l, tx, sent, cnt, sink, sinkLen, sinkMatch, result, got, last,
                                           srcMatch, scan, intr>>
                       ELSE Returns(nbuf)
    /\ UNCHANGED <<op, size, srcLen, keep, left, devVars>>

\* The user's interrupt (KeyboardInterrupt) strikes while the host is blocked in a
\* port read: the exception leaves the command, the handler of __main__ sends Reset
\* and the process ends.
Interrupt ==
    /\ intr = "armed"
    /\ pc \in Receiving
    /\ pc' = "released"
    /\ intr' = "struck"
    /\ tx' = tx \o OnInterrupt
    /\ scan' = FrameScan(scan, OnInterrupt)
    /\ sent' = sent \o <<PackReset>>
    /\ result' = <<"KeyboardInterrupt">>
    /\ UNCHANGED <<op, rphase, l, tot, buf, size, cnt, sink, sinkLen, sinkMatch, srcLen, rx,
                   got, last, acks, nread, timedOut, slow, splits, keep, left, srcMatch, devVars>>

---------------------------------------------------------------------------
(* Host: the commands *)

\* The command loop is at input('> '): the command before, if any, has returned
\* or raised one of the exceptions the loop catches.
ReplReady == pc \in {"idle", "done"}

\* The exceptions of a command that the loop's except clauses let through, and the
\* handler of __main__ as well: the process ends with a traceback (pc = "failed").
Uncaught == {"AssertionError", "struct.error"}

Begin(name, p, frames, sz, slen, res) ==
    /\ ReplReady
    /\ left > 0
    /\ left' = left - 1
    /\ op' = name
    /\ Emit(p, <<>>, frames, res)
    /\ size' = sz
    /\ cnt' = 0
    /\ sink' = <<>>
    /\ sinkLen' = 0
    /\ sinkMatch' = TRUE
    /\ srcMatch' = TRUE
    /\ srcLen' = slen
    /\ rphase' = "len"
    /\ l' = 0
    /\ tot' = 0
    /\ buf' = <<>>
    /\ got' = 0
    /\ last' = <<>>
    /\ acks' = 0
    /\ nread' = 0
    /\ timedOut' = FALSE
    /\ UNCHANGED <<rx, slow, splits, keep, devVars>>

\* The address check of read and write: none of its own; atoi parses (ValueError is
\* caught by the command loop) and struct.pack's 'H' takes any 16-bit value.
AddrAccepted(a) == FitsH(a)

read(addr) ==
    LET a == atoi(addr)
    IN  IF ~a.ok THEN Begin("read", "done", <<>>, 0, 0, <<"Invalid command">>)
        ELSE IF ~AddrAccepted(a.val)
        THEN Begin("read", "failed", <<>>, 0, 0, <<"struct.error">>)
        ELSE Begin("read", "read_resp", <<PackRead(a.val)>>, 0, 0, <<>>)

write(addr, val) ==
    LET a == atoi(addr)
        v == atoi(val)
    IN  IF ~a.ok \/ ~v.ok THEN Begin("write", "done", <<>>, 0, 0, <<"Invalid command">>)
        ELSE IF ~AddrAccepted(a.val) \/ ~FitsB(v.val)
        THEN Begin("write", "failed", <<>>, 0, 0, <<"struct.error">>)
        ELSE Begin("write", "write_ack", <<PackWrite(a.val, v.val)>>, 0, 0, <<>>)

fdump(sz) ==
    IF DumpContinues(0, sz)
    THEN Begin("fdump", "dump_frame", <<PackDump>>, sz, 0, <<>>)
    ELSE IF DumpResyncs(sz)
    THEN Begin("fdump", "dump_drain", <<PackDump, PackReset>>, sz, 0, <<"Complete">>)
    ELSE Begin("fdump", "done", <<PackDump>>, sz, 0, <<"Complete">>)

\* fload(f, size) with f holding slen bytes, called by `name`.
FloadBy(name, sz, slen) ==
    IF FitsH(sz)
    THEN Begin(name, "load_cmd_ack", <<PackLoad(sz)>>, sz, slen, <<>>)
    ELSE Begin(name, "failed", <<>>, sz, slen, <<"struct.error">>)

fload(sz, slen) == FloadBy("fload", sz, slen)

\* load(filename) of a file of flen bytes: size = min(0x8000, st_size).
load(flen) == FloadBy("load", Min(ROMSIZE, flen), flen)

\* The load sub-command with n bytes on stdin: f takes sys.stdin.buffer.read(0x8000)
\* and size = f.tell().
CliLoad(n) == FloadBy("cliload", Min(n, ROMSIZE), Min(n, ROMSIZE))

\* test(size): data takes size generated bytes, then fload(data, size) and, when
\* that has returned, fdump(result, size=size) and the comparison.
test(sz) == FloadBy("test", sz, sz)

reset ==
    Begin("reset", "done", <<PackReset>>, 0, 0, <<>>)


---------------------------------------------------------------------------
(* The device at the other end of the line: the Arduino bridge *)

\* The next frame of a dump, from address a.
DumpFrame(a) == [i \in 1..Min(MAXPAYLOAD, ROMSIZE - a) |-> MemByte(a + i - 1)]

\* The memory after a load has stored data from address a on.
Store(a, data) ==
    [lo |-> IF a = Len(devMem.lo) THEN devMem.lo \o data
            ELSE [i \in 1..(IF Len(devMem.lo) > a + Len(data) THEN Len(devMem.lo)
                                                              ELSE a + Len(data)) |->
                    IF i > a /\ i <= a + Len(data) THEN data[i - a]
                    ELSE IF i <= Len(devMem.lo) THEN devMem.lo[i] ELSE RomByte(i - 1)],
     at |-> [x \in DOMAIN devMem.at \ (a..(a + Len(data) - 1)) |-> devMem.at[x]]]

\* The memory after a write of byte v at address a.
StoreByte(a, v) ==
    [lo |-> devMem.lo,
     at |-> [x \in DOMAIN devMem.at \cup {a} |-> IF x = a THEN v ELSE devMem.at[x]]]

DevGoes(p, reply, npos, nsize, nmem) ==
    /\ dpc' = p
    /\ rx' = rx \o reply
    /\ dpos' = npos
    /\ dsize' = nsize
    /\ devMem' = nmem

DevIdle(m) ==
    CASE Len(m) = 3 /\ m[1] = ChR ->
            DevGoes("idle", SendBytes(<<MemByte((m[2] * 256 + m[3]) % ROMSIZE)>>),
                    dpos, dsize, devMem)
      [] Len(m) = 4 /\ m[1] = ChW ->
            DevGoes("idle", SendBytes(<<>>), dpos, dsize,
                    StoreByte((m[2] * 256 + m[3]) % ROMSIZE, m[4]))
      [] Len(m) = 1 /\ m[1] = ChD ->
            DevGoes("dump_wait_ack", SendBytes(DumpFrame(0)), Len(DumpFrame(0)),
                    dsize, devMem)
      [] Len(m) = 3 /\ m[1] = ChL ->
            LET n == m[2] * 256 + m[3]
            IN  DevGoes(IF n > 0 THEN "load_data" ELSE "idle", SendBytes(<<>>), 0, n, devMem)
      [] OTHER ->
            DevGoes("idle", <<>>, dpos, dsize, devMem)

DevDump(m) ==
    CASE Len(m) = 0 /\ dpos < ROMSIZE ->
            DevGoes("dump_wait_ack", SendBytes(DumpFrame(dpos)),
                    dpos + Len(DumpFrame(dpos)), dsize, devMem)
      [] Len(m) = 0 /\ dpos >= ROMSIZE ->
            DevGoes("idle", <<>>, dpos, dsize, devMem)
      [] m = PackReset ->
            DevGoes("idle", <<>>, dpos, dsize, devMem)
      [] OTHER ->
            DevGoes("dump_wait_ack", <<>>, dpos, dsize, devMem)

DevLoad(m) ==
    LET data == Take(m, dsize - dpos)
        npos == dpos + Len(data)
    IN  DevGoes(IF npos < dsize THEN "load_data" ELSE "idle", SendBytes(<<>>),
                npos, dsize, Store(dpos, data))

\* The device takes the next whole frame off the line and acts on it.
DevStep ==
    /\ tx # <<>>
    /\ Len(tx) >= 1 + tx[1]
    /\ LET m == SubSeq(tx, 2, 1 + tx[1])
       IN  /\ tx' = Drop(tx, 1 + tx[1])
           /\ CASE dpc = "idle" -> DevIdle(m)
                [] dpc = "dump_wait_ack" -> DevDump(m)
                [] dpc = "load_data" -> DevLoad(m)
    /\ UNCHANGED hostVars

---------------------------------------------------------------------------
(* The session: commands one after the other against a device that may be slow *)

Addrs == { <<"0", "x", "7", "F", "F", "F">>, <<"3", "2", "7", "6", "8">>,
           <<"0", "o", "2", "0", "0", "0", "0", "0">>, <<"0", "x", "z">> }

Vals == { <<"0", "x", "f", "f">>, <<"2", "5", "6">> }

SmallSizes == {0, 63}

InitCommon ==
    /\ pc = "idle"
    /\ op = "none"
    /\ rphase = "len"
    /\ l = 0
    /\ tot = 0
    /\ buf = <<>>
    /\ size = 0
    /\ cnt = 0
    /\ sink = <<>>
    /\ sinkLen = 0
    /\ sinkMatch = TRUE
    /\ srcLen = 0
    /\ result = <<>>
    /\ tx = <<>>
    /\ rx = <<>>
    /\ dpc = "idle"
    /\ dpos = 0
    /\ dsize = 0
    /\ devMem = [lo |-> <<>>, at |-> <<>>]
    /\ sent = <<>>
    /\ got = 0
    /\ last = <<>>
    /\ acks = 0
    /\ nread = 0
    /\ timedOut = FALSE
    /\ srcMatch = TRUE
    /\ scan = [owed |-> 0, ok |-> TRUE]

Init ==
    /\ InitCommon
    /\ slow = MaxTimeouts
    /\ splits = 0
    /\ keep = TRUE
    /\ left = MaxCmds
    /\ intr = "off"

Next ==
    \/ \E a \in Addrs : read(a)
    \/ \E a \in Addrs, v \in Vals : write(a, v)
    \/ \E sz \in SmallSizes : fdump(sz)
    \/ \E sz \in SmallSizes : fload(sz, sz)
    \/ reset
    \/ HostRecv
    \/ DevStep

Spec == Init /\ [][Next]_vars


---------------------------------------------------------------------------
(* Whole transfers against a device that answers in time *)

DumpSizes == {0, 1, 62, 100, 4096, 32736, 32737, 32767, ROMSIZE}

LoadSizes == {0, 1, 61, 62, 63, 100, 124, 4096, 32767, ROMSIZE}

InitFull ==
    /\ InitCommon
    /\ slow = 0
    /\ splits = 0
    /\ keep = FALSE
    /\ left = 1
    /\ intr = "off"

NextFull ==
    \/ \E sz \in DumpSizes : fdump(sz)
    \/ \E sz \in LoadSizes, more \in {0, 1} : fload(sz, sz + more)
    \/ HostRecv
    \/ DevStep

SpecFull == InitFull /\ [][NextFull]_vars

---------------------------------------------------------------------------
(* The callers of fload: load, the load sub-command and test, against a device *)
(* that answers in time                                                        *)

TestSizes == {0, 1, 62, 8192, ROMSIZE, ROMSIZE + 1}

FileLens == {0, 100, ROMSIZE + 1}

InitTest ==
    /\ InitCommon
    /\ slow = 0
    /\ splits = 0
    /\ keep = FALSE
    /\ left = 1
    /\ intr = "off"

NextTest ==
    \/ \E sz \in TestSizes : test(sz)
    \/ \E flen \in FileLens : load(flen)
    \/ \E n \in FileLens : CliLoad(n)
    \/ HostRecv
    \/ DevStep

SpecTest == InitTest /\ [][NextTest]_vars

---------------------------------------------------------------------------
(* A transfer the user interrupts: Ctrl-C at any point of a dump, a load or a *)
(* self-test                                                                  *)

IntrSizes == {0, 63}

InitIntr ==
    /\ InitCommon
    /\ slow = 0
    /\ splits = 0
    /\ keep = TRUE
    /\ left = 1
    /\ intr = "armed"

NextIntr ==
    \/ \E sz \in IntrSizes : fdump(sz)
    \/ \E sz \in IntrSizes : fload(sz, sz)
    \/ \E sz \in IntrSizes : test(sz)
    \/ HostRecv
    \/ Interrupt
    \/ DevStep

SpecIntr == InitIntr /\ [][NextIntr]_vars

---------------------------------------------------------------------------
(* The methods called one by one with arguments at the edges of their ranges, *)
(* fload also with a source that holds fewer bytes than size                   *)

CallAddrs == {0, 1, 255, 256, 32767, ROMSIZE}

CallVals == {0, 1, 255}

CallDumpSizes == {0, 1, 100}

CallSrcLens == {0, 100}

InitCalls ==
    /\ InitCommon
    /\ slow = 0
    /\ splits = 0
    /\ keep = TRUE
    /\ left = 1
    /\ intr = "off"

NextCalls ==
    \/ \E a \in CallAddrs : read(Str(a))
    \/ \E a \in CallAddrs, v \in CallVals : write(Str(a), Str(v))
    \/ \E sz \in CallDumpSizes : fdump(sz)
    \/ \E sz \in CallAddrs, slen \in CallSrcLens : fload(sz, slen)
    \/ reset
    \/ HostRecv
    \/ DevStep

SpecCalls == InitCalls /\ [][NextCalls]_vars

---------------------------------------------------------------------------
(* The frame codec alone: one payload sent, looped back and received, over a *)
(* line that may split the delivery                                          *)

Payload(n, seed) == [i \in 1..n |-> (seed + 3 * i) % 256]

\* _send(p) called directly with a payload of any length.
FrameSend(p) ==
    IF SendAllowed(p)
    THEN Begin("frame", "frame_sent", <<p>>, 0, 0, <<>>)
    ELSE Begin("frame", "failed", <<p>>, 0, 0, <<"AssertionError">>)

\* The line hands the bytes written back to the reader; the host calls _receive.
Loopback ==
    /\ pc = "frame_sent"
    /\ pc' = "frame_recv"
    /\ rx' = rx \o tx
    /\ tx' = <<>>
    /\ UNCHANGED <<op, rphase, l, tot, buf, size, cnt, sink, sinkLen, sinkMatch, srcLen, result,
                   sent, got,
                   last, acks, nread, timedOut, slow, splits, keep, left, srcMatch, scan, intr,
                   devVars>>

InitFrame ==
    /\ InitCommon
    /\ slow = 0
    /\ splits = MaxSplits
    /\ keep = TRUE
    /\ left = 1
    /\ intr = "off"

NextFrame ==
    \/ \E n \in 0..MaxFrameLen, seed \in 0..MaxSeed : FrameSend(Payload(n, seed))
    \/ Loopback
    \/ HostRecv

SpecFrame == InitFrame /\ [][NextFrame]_vars

\* Two _send calls in a row, then one _receive of the bytes looped back: the
\* second frame is on the line behind the first. Payloads of up to MaxPairLen bytes.
MaxPairLen == 3

FramePair(p, q) ==
    Begin("frames", "frame_sent", <<p, q>>, 0, 0, <<>>)

NextPair ==
    \/ \E n1 \in 0..MaxPairLen, n2 \in 0..MaxPairLen, seed \in 0..MaxSeed :
            FramePair(Payload(n1, seed), Payload(n2, seed + 1))
    \/ Loopback
    \/ HostRecv

SpecPair == InitFrame /\ [][NextPair]_vars


---------------------------------------------------------------------------
(* Properties *)

AckWaits == {"write_ack", "load_cmd_ack", "load_chunk_ack"}

\* The data chunks of a load: what was passed to _send after the Load command.
Chunks == Tail(sent)

\* Chunk i (from 1) of the first sz bytes of the source cut into MAXPAYLOAD-byte chunks.
ExpectedChunk(i, sz) ==
    [j \in 1..Min(MAXPAYLOAD, sz - (i - 1) * MAXPAYLOAD) |->
        SrcByte((i - 1) * MAXPAYLOAD + j - 1)]

\* C1: during fload every frame after the Load command is sent only after a
\* zero-length ack frame of the device has been received for the frame before it:
\* the frames sent never exceed the acks really read off the line by more than one.
C1_AckBeforeNextFrame ==
    op = "fload" => Len(sent) <= acks + 1

\* C2: a partial dump (size < 0x8000) that has returned has sent Reset last, has
\* then received one further frame of the device (its draining read did not come
\* back empty-handed), and has left nothing of the device unread.
C2_PartialDumpResync ==
    (op = "fdump" /\ pc = "done" /\ size < ROMSIZE) =>
        /\ sent[Len(sent)] = PackReset
        /\ ~timedOut
        /\ rx = <<>>

\* C3: a full dump ends with the sink holding the 32768 device bytes in order,
\* after 529 frames, the host having sent the Dump command and then one
\* zero-length ack per frame and nothing else.
\* Until then the sink holds the device bytes received so far, and every frame
\* received has been acknowledged.
C3_FullDump ==
    (op = "fdump" /\ size = ROMSIZE) =>
        /\ sinkLen = cnt
        /\ sinkMatch
        /\ got = CeilDiv(cnt, MAXPAYLOAD)
        /\ sent = <<PackDump>> \o [i \in 1..got |-> <<>>]
        /\ pc = "done" =>
              /\ cnt = 32768
              /\ got = 529
              /\ rx = <<>>
              /\ tx = <<>> => dpc = "idle"

C3_Witness ==
    op = "fdump" /\ pc = "done" /\ size = ROMSIZE /\ sinkLen = ROMSIZE /\ ~timedOut

\* C4: a load of size bytes from a source holding at least size bytes sends the
\* source's first size bytes in chunks of 62, the last one holding the rest, none
\* empty: each chunk is the expected one when it is sent, and a load that has
\* returned has sent ceil(size/62) of them.
C4_LoadChunks ==
    (op = "fload" /\ srcLen >= size /\ sent # <<>>) =>
        /\ sent[1] = PackLoad(size)
        /\ Len(Chunks) <= CeilDiv(size, MAXPAYLOAD)
        /\ Chunks # <<>> =>
              /\ Chunks[Len(Chunks)] = ExpectedChunk(Len(Chunks), size)
              /\ Chunks[Len(Chunks)] # <<>>
              /\ cnt = Min(size, Len(Chunks) * MAXPAYLOAD)
        /\ pc = "done" =>
              /\ Len(Chunks) = CeilDiv(size, MAXPAYLOAD)
              /\ \A i \in 1..Len(Chunks) : Chunks[i] = ExpectedChunk(i, size)
              /\ cnt = size

C4_Witness ==
    /\ op = "fload" /\ pc = "done" /\ size = 100 /\ srcLen >= size
    /\ Len(Chunks) = 2 /\ Len(Chunks[1]) = 62 /\ Len(Chunks[2]) = 38


\* C5: a read (of an address in range) whose port read came back short of what it
\* asked for (the timeout struck) does not print a value as if a frame had been
\* received.
C5_ReadTimeoutFails ==
    (op = "read" /\ timedOut /\ sent # <<>> /\ sent[1][2] * 256 + sent[1][3] < ROMSIZE) =>
        ~(pc = "done" /\ result # <<>> /\ result[1] = "value")

\* C6: once a port read of an fdump or fload has timed out, that step and every
\* later one of the transfer sends no further ack or chunk and leaves the byte
\* counter alone.
C6_TimeoutAborts ==
    [][(op' = op /\ op \in {"fdump", "fload"} /\ timedOut') =>
          (sent' = sent /\ cnt' = cnt)]_vars

\* C7: when the frame _receive returns to an acknowledged send (write, the Load
\* command, a load chunk) is not zero-length, the command fails there: nothing
\* more is sent and OK is not reported.
C7_NonEmptyAckFatal ==
    [][(pc \in AckWaits /\ got' = got + 1 /\ last' # <<>>) =>
          (pc' = "failed" /\ sent' = sent /\ tx' = tx /\ result' = <<"AssertionError">>)]_vars

C7_Witness ==
    /\ op = "fload" /\ pc = "failed" /\ last # <<>>
    /\ Len(sent) >= 2 /\ result = <<"AssertionError">>

\* C8: the payload passed to _send is what _receive returns when the bytes
\* written are read back, however the line splits their delivery.
C8_RoundTrip ==
    (op = "frame" /\ pc = "done") => last = sent[1]

\* C9: a read or write that has put its command frame on the line had an address
\* below 0x8000.
C9_AddressRange ==
    (op \in {"read", "write"} /\ sent # <<>>) => sent[1][2] * 256 + sent[1][3] < ROMSIZE

\* C10: _send with a payload of 63 bytes or more fails and writes nothing; with
\* 62 bytes or fewer it writes one length byte equal to the payload's length and
\* then the payload.
C10_SendBound ==
    op = "frame" =>
        /\ Len(sent[1]) >= 63 => (pc = "failed" /\ tx = <<>> /\ rx = <<>>)
        /\ Len(sent[1]) <= 62 =>
              /\ pc # "failed"
              /\ pc = "frame_sent" =>
                    /\ Len(tx) = 1 + Len(sent[1])
                    /\ tx[1] = Len(sent[1])
                    /\ \A i \in 1..Len(sent[1]) : tx[i + 1] = sent[1][i]

C10_Witness ==
    op = "frame" /\ Len(sent[1]) = 63 /\ pc = "failed" /\ tx = <<>>

\* C11: test(size) for size 0, 1, 62, 8192 and 32768 against a device that stores
\* what it is loaded with and streams it back: the load and the dump run without
\* a failure and without a read timing out, every byte written to result is the
\* byte of data at that offset, and when test has returned it has read back size
\* bytes and reported OK.
C11Sizes == {0, 1, 62, 8192, ROMSIZE}

C11_SelfTestOk ==
    (op = "test" /\ size \in C11Sizes) =>
        /\ pc # "failed"
        /\ ~timedOut
        /\ srcMatch
        /\ sinkLen <= size
        /\ pc = "done" => (result = <<"OK">> /\ sinkLen = size /\ rx = <<>>)

C11_Witness ==
    /\ op = "test" /\ size = 62 /\ pc = "done" /\ result = <<"OK">> /\ sinkLen = 62
    /\ Len(sent) >= 5 /\ sent[2] = SrcRead(0, 62, 62) /\ sent[3] = PackDump


\* C12: a command of the command loop that fails with a protocol error (a
\* non-empty ack, an argument out of range) leaves the loop ready for the next
\* command.
C12_ReplSurvivesErrors ==
    (result # <<>> /\ result[1] \in Uncaught) => ReplReady


\* The whole frames at the head of the bytes on the line, as the device takes them,
\* and the bytes after them that are no whole frame.
RECURSIVE WholeFrames(_)
WholeFrames(bytes) ==
    IF bytes = <<>> \/ Len(bytes) < 1 + bytes[1] THEN <<>>
    ELSE <<SubSeq(bytes, 2, 1 + bytes[1])>> \o WholeFrames(Drop(bytes, 1 + bytes[1]))

RECURSIVE Unframed(_)
Unframed(bytes) ==
    IF bytes = <<>> \/ Len(bytes) < 1 + bytes[1] THEN bytes
    ELSE Unframed(Drop(bytes, 1 + bytes[1]))

\* C13: once the interrupt has struck a dump, load or self-test, the host has sent
\* Reset and nothing after it and has left the command, and the bytes the device
\* has still to take off the line are whole frames, the last of them Reset.
C13_InterruptResets ==
    intr = "struck" =>
        /\ pc = "released"
        /\ sent[Len(sent)] = PackReset
        /\ tx # <<>> =>
              /\ Unframed(tx) = <<>>
              /\ WholeFrames(tx)[Len(WholeFrames(tx))] = PackReset

\* C20: the bytes the host has written to the port are a run of complete frames,
\* each a length byte of at most 62 and that many data bytes, also once an
\* interrupt has struck and Reset has been written.
C20_WellFormedOutput ==
    scan.ok /\ scan.owed = 0


\* C14: whichever caller starts a load (load, the load sub-command, test), the
\* size its Load command announces is at most 0x8000 and at most the number of
\* bytes the source holds.
C14_LoadSizeClamped ==
    (op \in {"load", "cliload", "test"} /\ sent # <<>>) =>
        /\ sent[1][1] = ChL
        /\ sent[1][2] * 256 + sent[1][3] <= ROMSIZE
        /\ sent[1][2] * 256 + sent[1][3] <= srcLen


\* The command and arguments a payload stands for, told by its length and its
\* first byte.
Decode(p) ==
    CASE Len(p) = 3 /\ p[1] = 114 -> <<"read", p[2] * 256 + p[3]>>
      [] Len(p) = 4 /\ p[1] = 119 -> <<"write", p[2] * 256 + p[3], p[4]>>
      [] Len(p) = 1 /\ p[1] = 100 -> <<"dump">>
      [] Len(p) = 3 /\ p[1] = 108 -> <<"load", p[2] * 256 + p[3]>>
      [] Len(p) = 1 /\ p[1] = 114 -> <<"reset">>
      [] OTHER -> <<"none">>

\* C15: each command sends the payload of the wire format, for addresses and sizes
\* from 0 to 0x8000 and values from 0 to 255: read 'r' hi lo, write 'w' hi lo
\* value, dump 'd', load 'l' hi lo, reset 'r', the 16-bit field high byte first;
\* and the payload tells the command and its arguments (no two commands share one;
\* read has 3 bytes, reset 1).
C15_CommandEncodings ==
    [][/\ \A a \in CallAddrs :
              read(Str(a)) =>
                  /\ sent' = << <<114, a \div 256, a % 256>> >>
                  /\ Decode(sent'[1]) = <<"read", a>>
       /\ \A a \in CallAddrs, v \in CallVals :
              write(Str(a), Str(v)) =>
                  /\ sent' = << <<119, a \div 256, a % 256, v>> >>
                  /\ Decode(sent'[1]) = <<"write", a, v>>
       /\ \A sz \in CallDumpSizes :
              fdump(sz) => (sent'[1] = <<100>> /\ Decode(sent'[1]) = <<"dump">>)
       /\ \A sz \in CallAddrs, slen \in CallSrcLens :
              fload(sz, slen) =>
                  /\ sent' = << <<108, sz \div 256, sz % 256>> >>
                  /\ Decode(sent'[1]) = <<"load", sz>>
       /\ reset => (sent' = << <<114>> >> /\ Decode(sent'[1]) = <<"reset">>)
      ]_vars

C15_Witness ==
    op = "write" /\ sent = << <<119, 127, 255, 255>> >> /\ tx = <<4, 119, 127, 255, 255>>


\* C16: an fdump or fload that has returned and reported completion has
\* transferred exactly size bytes, also when the source of the load held fewer.
C16_CompleteMeansAll ==
    (op \in {"fdump", "fload"} /\ pc = "done" /\ result = <<"Complete">>) => cnt = size

\* The number of bytes in the first n of these frames.
RECURSIVE SumLen(_, _)
SumLen(frames, n) ==
    IF n = 0 THEN 0 ELSE Len(frames[n]) + SumLen(frames, n - 1)

\* C17: throughout fdump and fload the byte counter is at most size; a dump has
\* written to the sink exactly the counted bytes, so never more than size, also
\* when the frame received last held more than was still wanted; a load has sent
\* exactly the counted bytes of the source, so never more than size.
C17_CountWithinSize ==
    /\ op = "fdump" => (cnt <= size /\ sinkLen = cnt)
    /\ (op = "fload" /\ sent # <<>>) =>
          (cnt <= size /\ SumLen(Chunks, Len(Chunks)) = cnt)

C17_Witness ==
    /\ op = "fdump" /\ size = 100 /\ pc = "dump_drain"
    /\ got = 2 /\ Len(last) = 62 /\ cnt = 100 /\ sinkLen = 100

\* C18: a _receive that has returned has taken off the line one length byte and
\* as many bytes as it said, returned these in order and left the frame behind
\* them on the line untouched, however the line split the delivery.
C18_ReceiveExact ==
    (op = "frames" /\ pc = "done") =>
        /\ nread = 1 + Len(sent[1])
        /\ rx = SendBytes(sent[2])
        /\ last = sent[1]

\* C19: against a device that answers in time, no port read of an fdump comes
\* back short for want of a frame the device never sends, and an fdump that has
\* returned has transferred size bytes.
C19_DumpNeverStarves ==
    op = "fdump" =>
        /\ ~timedOut
        /\ pc = "done" => cnt = size


===========================================================================
